---- MODULE Spec2Model ----
(***************************************************************************)
(* State-machine model of the JEOL scripts:                                *)
(*   stage_logger.py  - the TEM stage position logger (configuration menu, *)
(*                      confirmation gate, sampling loop, SIGINT handler,  *)
(*                      cleanup, process exit status)                      *)
(*   beam_blank.py    - the beam blank controller (toggle_beam, the hotkey *)
(*                      listener thread, update_hotkey); a program of its  *)
(*                      own, specified by BeamSpec                         *)
(*                                                                         *)
(* Units.  Time and the logging interval are counted in ticks of 0.1 s, so *)
(* the default interval 0.1 is 1 tick and the argument "-1" is -10 ticks.  *)
(* File contents.  A file is the sequence of its lines; the header line is *)
(* Header (0) and the data line of a sample is the sample's positive id.   *)
(* The csv file object buffers: writerow puts the line into the handle's   *)
(* buffer (csv_buf) and flush()/close() move the buffer to the disk or     *)
(* raise OSError, in which case the buffered lines stay in the buffer      *)
(* (flush) or are dropped with the handle (close).                         *)
(* Environment.  Whether a directory can be written, whether GetPos or a   *)
(* flush succeeds and which attributes the instrument module has are       *)
(* chosen where the code asks.                                             *)
(***************************************************************************)
EXTENDS Integers, Sequences, FiniteSets, TLC

(***************************************************************************)
(* Bounds of the model                                                     *)
(***************************************************************************)
MaxReads == 3
MaxSessions == 2
MaxInterrupts == 2
MaxEvents == 3

(***************************************************************************)
(* Program constants and input alphabets                                   *)
(***************************************************************************)
default_output == "C"
default_interval == 1
Header == 0
None == "None"

Paths == {"C", "D"}
IntervalStrings == {"-1", "0", "0.2", "abc"}
ArgvSet ==
  {<<"prog">>} \cup {<<"prog", p>> : p \in {"D"}}
               \cup {<<"prog", "D", s>> : s \in IntervalStrings}
MenuChoices == {"1", "2", "3", "4", "9"}
PathInputs == {"", "C", "D"}
ConfirmInputs == {"y", "YES", "n", "No", "maybe"}
ReadOutcomes == {"ok", "partial", "raise"}
AcqDurations == {1, 3}
Keys == {"alt+q", "ctrl+b"}
HotkeyEntries == {"", " ", "alt+q", "ctrl+b "}

\* float(s): the value in ticks of 0.1 s, or ValueError
float(s) ==
  CASE s = "-1"  -> [ok |-> TRUE, val |-> -10]
    [] s = "0"   -> [ok |-> TRUE, val |-> 0]
    [] s = "0.2" -> [ok |-> TRUE, val |-> 2]
    [] OTHER     -> [ok |-> FALSE, val |-> 0]

\* response.lower().strip() on the confirmation inputs
lower_strip(s) ==
  CASE s = "YES" -> "yes"
    [] s = "No"  -> "no"
    [] OTHER     -> s

\* new_hotkey of update_hotkey (49): the entry's text, stripped
strip(s) ==
  CASE s = " "       -> ""
    [] s = "ctrl+b " -> "ctrl+b"
    [] OTHER         -> s

VARIABLES
  session,        \* number of the process run (1..MaxSessions)
  pc,             \* position of the main thread
  output_file,    \* output_file of get_user_parameters / self.output_file
  interval,       \* interval of get_user_parameters / self.interval
  running,        \* self.running
  handler,        \* TRUE once signal.signal installed signal_handler
  tem,            \* self.tem: None or "TEM3"
  csv_file,       \* self.csv_file: None, "open" or "closed"
  csv_buf,        \* lines written to the handle and not yet on disk
  position_data,  \* position_data of run: 0 (None) or the sample id
  file_exists,    \* file_exists of setup_csv_file
  log_count,      \* log_count of run
  exit_status,    \* process exit status, -1 while the process runs
  exists,         \* file system: does the file of a path exist
  disk,           \* file system: the lines of the file of a path
  probe_ok,       \* outcome of the last writability probe of the menu
  confirm_result, \* what confirm_operation returned: None, "True" or "False"
  \* ---- observation (history) variables ----
  readCount,      \* GetPos calls issued so far, over all sessions
  consecFail,     \* current run of consecutive log_position failures
  temCalls,       \* calls made during cleanup, in order
  cleanups,       \* number of times cleanup ran in this session
  loopError,      \* the except clause of the main loop was taken
  uncaught,       \* an exception left main uncaught
  interrupts,     \* SIGINT deliveries in this session
  stopInSampling, \* the first SIGINT arrived while run was in its loop
  readsAfterStop, \* GetPos calls issued after running became false
  sleepsAfterStop,\* time.sleep calls issued after running became false
  acq_elapsed,    \* time spent so far in the current iteration of the loop
  startDisk,      \* contents of the file of output_file when it was opened
  \* ---- beam_blank.py: BeamControllerApp ----
  gui,            \* position of the GUI thread: "off", "mainloop",
                  \* "update_set" or "update_add" (inside update_hotkey)
  listener,       \* position of the hotkey_listener thread: "off", "start",
                  \* "add" or "wait"
  is_blank,       \* self.is_blank: 0 or 1 (False / True)
  beam,           \* blanking state of the instrument: 0 or 1
  current_hotkey, \* self.current_hotkey
  listener_key,   \* the argument hotkey_listener evaluated for add_hotkey
  new_hotkey,     \* new_hotkey of update_hotkey
  hotkeys,        \* keyboard module: registrations per hotkey
  pending,        \* toggle_beam calls scheduled by master.after
  events          \* clicks, key presses and entries of the operator so far

vars == <<session, pc, output_file, interval, running, handler, tem,
          csv_file, csv_buf, position_data, file_exists, log_count,
          exit_status, exists, disk, probe_ok, confirm_result, readCount,
          consecFail,
          temCalls, cleanups, loopError, uncaught, interrupts,
          stopInSampling, readsAfterStop, sleepsAfterStop, acq_elapsed,
          startDisk, gui, listener, is_blank, beam, current_hotkey,
          listener_key, new_hotkey, hotkeys, pending, events>>

\* the state of the beam blank controller
beamVars == <<gui, listener, is_blank, beam, current_hotkey, listener_key,
              new_hotkey, hotkeys, pending, events>>

\* the state of the stage logger and its file system
stageVars == <<session, pc, output_file, interval, running, handler, tem,
               csv_file, csv_buf, position_data, file_exists, log_count,
               exit_status, exists, disk, probe_ok, confirm_result,
               readCount, consecFail, temCalls, cleanups, loopError,
               uncaught, interrupts, stopInSampling, readsAfterStop,
               sleepsAfterStop, acq_elapsed, startDisk>>

fsVars == <<exists, disk>>
cfgVars == <<output_file, interval>>
loggerVars == <<running, handler, tem, csv_file, csv_buf, position_data,
                file_exists, log_count>>
histVars == <<readCount, consecFail, temCalls, cleanups, loopError,
              uncaught, stopInSampling, readsAfterStop, sleepsAfterStop,
              acq_elapsed, startDisk>>

SamplingPcs == {"loop_check", "get_stage_position", "log_position", "sleep"}

(***************************************************************************)
(* Process start: module-level state and the argument handling at the top  *)
(* of get_user_parameters (lines 185-199).                                 *)
(***************************************************************************)
\* output_file after the command-line check
ArgvOutput(a) == IF Len(a) > 1 THEN a[2] ELSE default_output

\* interval after the command-line check: float(sys.argv[2]), and the
\* default when float raises ValueError
ArgvInterval(a) ==
  IF Len(a) > 2
    THEN IF float(a[3]).ok THEN float(a[3]).val ELSE default_interval
    ELSE default_interval

\* the state of a freshly started process with arguments a
ProcessStart(a) ==
  /\ pc' = "menu"
  /\ output_file' = ArgvOutput(a)
  /\ interval' = ArgvInterval(a)
  /\ running' = TRUE
  /\ handler' = FALSE
  /\ tem' = None
  /\ csv_file' = None
  /\ csv_buf' = <<>>
  /\ position_data' = 0
  /\ file_exists' = FALSE
  /\ log_count' = 0
  /\ exit_status' = -1
  /\ probe_ok' = TRUE
  /\ confirm_result' = None
  /\ consecFail' = 0
  /\ temCalls' = <<>>
  /\ cleanups' = 0
  /\ loopError' = FALSE
  /\ uncaught' = FALSE
  /\ interrupts' = 0
  /\ stopInSampling' = FALSE
  /\ readsAfterStop' = 0
  /\ sleepsAfterStop' = 0
  /\ acq_elapsed' = 0
  /\ startDisk' = <<>>

\* the stage logger right after its start
LoggerInit ==
  /\ session = 1
  /\ pc = "menu"
  /\ \E a \in ArgvSet :
       /\ output_file = ArgvOutput(a)
       /\ interval = ArgvInterval(a)
  /\ running = TRUE
  /\ handler = FALSE
  /\ tem = None
  /\ csv_file = None
  /\ csv_buf = <<>>
  /\ position_data = 0
  /\ file_exists = FALSE
  /\ log_count = 0
  /\ exit_status = -1
  /\ exists = [p \in Paths |-> FALSE]
  /\ disk = [p \in Paths |-> <<>>]
  /\ probe_ok = TRUE
  /\ confirm_result = None
  /\ readCount = 0
  /\ consecFail = 0
  /\ temCalls = <<>>
  /\ cleanups = 0
  /\ loopError = FALSE
  /\ uncaught = FALSE
  /\ interrupts = 0
  /\ stopInSampling = FALSE
  /\ readsAfterStop = 0
  /\ sleepsAfterStop = 0
  /\ acq_elapsed = 0
  /\ startDisk = <<>>

\* beam_blank.py not started
BeamOff ==
  /\ gui = "off"
  /\ listener = "off"
  /\ is_blank = 0
  /\ beam = 0
  /\ current_hotkey = None
  /\ listener_key = None
  /\ new_hotkey = None
  /\ hotkeys = [k \in Keys |-> 0]
  /\ pending = 0
  /\ events = 0

Init == LoggerInit /\ BeamOff

\* the process ends with status st
Exit(st) ==
  /\ pc' = "exit"
  /\ exit_status' = st

(***************************************************************************)
(* get_user_parameters: one iteration of the menu loop (lines 201-250).    *)
(* Every iteration first displays the settings, which evaluates 1/interval *)
(* and so raises ZeroDivisionError when interval is 0, then probes the     *)
(* directory (mkdir, touch and unlink of a test file succeed or raise; the *)
(* outcome is only printed), then reads the choice.                        *)
(***************************************************************************)
MenuShown ==
  /\ pc = "menu"
  /\ interval # 0
  /\ probe_ok' \in BOOLEAN

\* line 206 with interval = 0: ZeroDivisionError leaves main uncaught
MenuCrash ==
  /\ pc = "menu"
  /\ interval = 0
  /\ Exit(1)
  /\ uncaught' = TRUE
  /\ UNCHANGED <<beamVars, session, confirm_result, cfgVars, loggerVars,
                 fsVars, probe_ok, readCount, consecFail, temCalls, cleanups,
                 loopError, interrupts, stopInSampling, readsAfterStop,
                 sleepsAfterStop, acq_elapsed, startDisk>>

\* choice "1": break and return (output_file, interval); main then calls
\* confirm_operation
MenuStart ==
  /\ MenuShown
  /\ pc' = "confirm"
  /\ UNCHANGED <<beamVars, session, confirm_result, cfgVars, loggerVars,
                 exit_status, fsVars, histVars, interrupts>>

\* choice "2": a non-empty entry replaces output_file
MenuChangePath ==
  /\ MenuShown
  /\ \E new_output \in PathInputs :
       output_file' = IF new_output # "" THEN new_output ELSE output_file
  /\ UNCHANGED <<beamVars, session, confirm_result, pc, interval, loggerVars,
                 exit_status, fsVars, histVars, interrupts>>

\* a menu that takes any number
IntervalAccepted_any(v) == TRUE

\* "if new_interval > 0" (236)
IntervalAccepted(v) == v > 0

\* choice "3": a number that is accepted replaces interval; a rejected one
\* and a ValueError of float only print a message (234-241)
MenuChangeInterval ==
  /\ MenuShown
  /\ \E s \in IntervalStrings :
       interval' = IF float(s).ok /\ IntervalAccepted(float(s).val)
                     THEN float(s).val ELSE interval
  /\ UNCHANGED <<beamVars, session, confirm_result, pc, output_file,
                 loggerVars, exit_status, fsVars, histVars, interrupts>>

\* choice "4": return (None, None); main calls sys.exit(0)
MenuExit ==
  /\ MenuShown
  /\ Exit(0)
  /\ UNCHANGED <<beamVars, session, confirm_result, cfgVars, loggerVars,
                 fsVars, histVars, interrupts>>

\* any other choice: message and next iteration
MenuInvalid ==
  /\ MenuShown
  /\ \E choice \in MenuChoices \ {"1", "2", "3", "4"} : TRUE
  /\ UNCHANGED <<beamVars, session, confirm_result, pc, cfgVars, loggerVars,
                 exit_status, fsVars, histVars, interrupts>>

(***************************************************************************)
(* confirm_operation and the rest of main up to logger.run() (253-298)     *)
(***************************************************************************)
\* a main that starts logging whatever the answer
Proceed_always(answer) == TRUE

\* "if not confirm_operation(): ... sys.exit(0)" (290-292): does main go on
\* after confirm_operation returned answer
Proceed(answer) == answer

\* main after confirm_operation returned answer (290-298): it constructs
\* StagePositionLogger (__init__, lines 31-40) and enters run, or prints
\* "Logging aborted by user." and calls sys.exit(0)
MainAfterConfirm(answer) ==
  IF Proceed(answer)
    THEN /\ running' = TRUE
         /\ tem' = None
         /\ csv_file' = None
         /\ handler' = TRUE
         /\ pc' = "initialize_tem"
         /\ UNCHANGED exit_status
    ELSE /\ Exit(0)
         /\ UNCHANGED <<running, tem, csv_file, handler>>

\* 'y'/'yes': confirm_operation returns True (270-271)
ConfirmYes ==
  /\ pc = "confirm"
  /\ \E response \in ConfirmInputs : lower_strip(response) \in {"y", "yes"}
  /\ confirm_result' = "True"
  /\ MainAfterConfirm(TRUE)
  /\ UNCHANGED <<beamVars, session, cfgVars, csv_buf, position_data,
                 file_exists, log_count, fsVars, probe_ok, histVars,
                 interrupts>>

\* 'n'/'no': confirm_operation returns False (272-273)
ConfirmNo ==
  /\ pc = "confirm"
  /\ \E response \in ConfirmInputs : lower_strip(response) \in {"n", "no"}
  /\ confirm_result' = "False"
  /\ MainAfterConfirm(FALSE)
  /\ UNCHANGED <<beamVars, session, cfgVars, csv_buf, position_data,
                 file_exists, log_count, fsVars, probe_ok, histVars,
                 interrupts>>

\* anything else: asked again
ConfirmAgain ==
  /\ pc = "confirm"
  /\ \E response \in ConfirmInputs :
       lower_strip(response) \notin {"y", "yes", "n", "no"}
  /\ UNCHANGED vars

(***************************************************************************)
(* StagePositionLogger.run and the methods it calls (lines 47-178)         *)
(***************************************************************************)
\* the id of the sample produced by the n-th GetPos call
SampleId(n) == n

\* a run that goes on although the connection failed
RunAfterInit_ignore(ok) == "setup_csv_file"

\* "if not self.initialize_tem(): return False" (121-123): where run goes
\* after initialize_tem returned ok
RunAfterInit(ok) == IF ok THEN "setup_csv_file" ELSE "exit"

\* initialize_tem (47-56) as called at the top of run (120-123): on success
\* self.tem = TEM3; on failure run returns False and main exits with 1
\* (302-304)
initialize_tem ==
  /\ pc = "initialize_tem"
  /\ \E ok \in BOOLEAN :
       /\ tem' = IF ok THEN "TEM3" ELSE tem
       /\ IF RunAfterInit(ok) = "exit"
            THEN Exit(1)
            ELSE /\ pc' = RunAfterInit(ok)
                 /\ UNCHANGED exit_status
  /\ UNCHANGED <<beamVars, session, confirm_result, cfgVars, running,
                 handler, csv_file, csv_buf, position_data, file_exists,
                 log_count, fsVars, probe_ok, histVars, interrupts>>

\* a header written at every open
WriteHeader_always(fe) == TRUE

\* "Write header if file is new" (91-93): is writeheader called
WriteHeader(fe) == ~fe

\* setup_csv_file (76-101) as called by run (125-131): mkdir and open in
\* append mode (both succeed, or one raises), header written to the handle
\* iff the file did not exist; on an exception run returns False, without
\* cleanup, and main exits with 1
setup_csv_file ==
  /\ pc = "setup_csv_file"
  /\ \E opened \in BOOLEAN :
     IF opened
       THEN /\ file_exists' = exists[output_file]
            /\ csv_file' = "open"
            /\ exists' = [exists EXCEPT ![output_file] = TRUE]
            /\ csv_buf' = IF WriteHeader(exists[output_file])
                             THEN <<Header>> ELSE <<>>
            /\ startDisk' = disk[output_file]
            /\ log_count' = 0
            /\ pc' = "loop_check"
            /\ UNCHANGED exit_status
       ELSE /\ Exit(1)
            /\ UNCHANGED <<file_exists, csv_file, exists, csv_buf, startDisk,
                           log_count>>
  /\ UNCHANGED <<beamVars, session, confirm_result, cfgVars, running,
                 handler, tem, position_data, disk, probe_ok, readCount,
                 consecFail, temCalls, cleanups, loopError, uncaught,
                 interrupts, stopInSampling, readsAfterStop, sleepsAfterStop,
                 acq_elapsed>>

\* a loop that tests the flag only before its first iteration
LoopCond_once == running \/ readCount > 0

\* the loop condition (134)
LoopCond == running

\* while self.running (134)
loop_check ==
  /\ pc = "loop_check"
  /\ IF LoopCond
       THEN /\ readCount < MaxReads
            /\ pc' = "get_stage_position"
       ELSE pc' = "cleanup"
  /\ UNCHANGED <<beamVars, session, confirm_result, cfgVars, loggerVars,
                 exit_status, fsVars, probe_ok, histVars, interrupts>>

\* get_stage_position (58-74) and the test of its result (136-138): GetPos
\* returns five values, or fewer (IndexError), or raises; both failures are
\* caught and give None.  The call takes d ticks.
get_stage_position ==
  /\ pc = "get_stage_position"
  /\ \E outcome \in ReadOutcomes, d \in AcqDurations :
       /\ readCount' = readCount + 1
       /\ acq_elapsed' = d
       /\ IF outcome = "ok"
            THEN /\ position_data' = SampleId(readCount + 1)
                 /\ pc' = "log_position"
            ELSE /\ position_data' = 0
                 /\ pc' = "sleep"
  /\ readsAfterStop' = IF running THEN readsAfterStop ELSE readsAfterStop + 1
  /\ UNCHANGED <<beamVars, session, confirm_result, cfgVars, running,
                 handler, tem, csv_file, csv_buf, file_exists, log_count,
                 exit_status, fsVars, probe_ok, consecFail, temCalls,
                 cleanups, loopError, uncaught, interrupts, stopInSampling,
                 sleepsAfterStop, startDisk>>

\* a log_position that gives the handle up when a write failed
HandleAfterLog_close(h, ok) == IF ok THEN h ELSE "closed"

\* self.csv_file after log_position (103-111), ok telling whether writerow
\* and flush went through: neither the try block nor the except clause
\* touches the handle
HandleAfterLog(h, ok) == h

\* log_position (103-111) and the counting in run (140-148): writerow puts
\* the record into the handle; flush moves everything buffered to the disk
\* and True is returned, or flush raises, the record stays buffered and
\* False is returned
log_position ==
  /\ pc = "log_position"
  /\ \/ /\ disk' = [disk EXCEPT ![output_file] =
                      @ \o csv_buf \o <<position_data>>]
        /\ csv_buf' = <<>>
        /\ csv_file' = HandleAfterLog(csv_file, TRUE)
        /\ log_count' = log_count + 1
        /\ consecFail' = 0
     \/ /\ csv_buf' = Append(csv_buf, position_data)
        /\ csv_file' = HandleAfterLog(csv_file, FALSE)
        /\ consecFail' = consecFail + 1
        /\ UNCHANGED <<disk, log_count>>
  /\ pc' = "sleep"
  /\ UNCHANGED <<beamVars, session, confirm_result, cfgVars, running,
                 handler, tem, position_data, file_exists, exit_status,
                 exists, probe_ok, readCount, temCalls, cleanups, loopError,
                 uncaught, interrupts, stopInSampling, readsAfterStop,
                 sleepsAfterStop, acq_elapsed, startDisk>>

\* the argument of time.sleep (151)
SleepArg == interval

\* time.sleep(self.interval) (151): a negative argument raises ValueError,
\* which the except clause of the loop (153-154) catches
sleep ==
  /\ pc = "sleep"
  /\ IF SleepArg < 0
       THEN /\ loopError' = TRUE
            /\ pc' = "cleanup"
       ELSE /\ pc' = "loop_check"
            /\ UNCHANGED loopError
  /\ sleepsAfterStop' = IF running THEN sleepsAfterStop
                                   ELSE sleepsAfterStop + 1
  /\ acq_elapsed' = 0
  /\ UNCHANGED <<beamVars, session, confirm_result, cfgVars, loggerVars,
                 exit_status, fsVars, probe_ok, readCount, consecFail,
                 temCalls, cleanups, uncaught, interrupts, stopInSampling,
                 readsAfterStop, startDisk>>

\* the instrument calls of cleanup (168-176), for an adapter with
\* hasattr(self.tem, 'disconnect') = hasDisconnect and
\* hasattr(self.tem, 'close') = hasClose
TemTeardown(hasDisconnect, hasClose) ==
  IF tem # None
    THEN IF hasDisconnect THEN <<"tem.connect">>
         ELSE IF hasClose THEN <<"tem.close">>
         ELSE <<>>
    ELSE <<>>

\* the finally clause (155-156), cleanup (160-178), return True (158) and
\* the end of main (298-304).  csv_file.close() flushes the handle's buffer;
\* when that fails it raises OSError out of cleanup, run and main.
cleanup ==
  /\ pc = "cleanup"
  /\ cleanups' = cleanups + 1
  /\ \E hasDisconnect \in BOOLEAN, hasClose \in BOOLEAN :
     IF csv_file # None
       THEN /\ csv_file' = "closed"
            /\ csv_buf' = <<>>
            /\ \/ /\ disk' = [disk EXCEPT ![output_file] = @ \o csv_buf]
                  /\ temCalls' = temCalls \o <<"csv_file.close">>
                                         \o TemTeardown(hasDisconnect, hasClose)
                  /\ Exit(0)
                  /\ UNCHANGED uncaught
               \/ /\ csv_buf # <<>>
                  /\ temCalls' = temCalls \o <<"csv_file.close">>
                  /\ uncaught' = TRUE
                  /\ Exit(1)
                  /\ UNCHANGED disk
       ELSE /\ temCalls' = temCalls \o TemTeardown(hasDisconnect, hasClose)
            /\ Exit(0)
            /\ UNCHANGED <<csv_file, csv_buf, disk, uncaught>>
  /\ UNCHANGED <<beamVars, session, confirm_result, cfgVars, running,
                 handler, tem, position_data, file_exists, log_count, exists,
                 probe_ok, readCount, consecFail, loopError, interrupts,
                 stopInSampling, readsAfterStop, sleepsAfterStop,
                 acq_elapsed, startDisk>>

(***************************************************************************)
(* signal_handler (42-45): SIGINT delivered while the handler is installed *)
(***************************************************************************)
\* a handler that toggles the flag
HandlerRunning_toggle(r) == ~r

\* the value the handler stores in self.running (45), r the current value
HandlerRunning(r) == FALSE

signal_handler ==
  /\ handler
  /\ pc # "exit"
  /\ interrupts < MaxInterrupts
  /\ running' = HandlerRunning(running)
  /\ interrupts' = interrupts + 1
  /\ stopInSampling' = IF interrupts = 0 THEN pc \in SamplingPcs
                                         ELSE stopInSampling
  /\ UNCHANGED <<beamVars, session, confirm_result, pc, cfgVars, handler,
                 tem, csv_file, csv_buf, position_data, file_exists,
                 log_count, exit_status, fsVars, probe_ok, readCount,
                 consecFail, temCalls, cleanups, loopError, uncaught,
                 readsAfterStop, sleepsAfterStop, acq_elapsed, startDisk>>

(***************************************************************************)
(* The operator runs the script again: a new process on the same files     *)
(***************************************************************************)
Restart ==
  /\ pc = "exit"
  /\ session < MaxSessions
  /\ session' = session + 1
  /\ \E a \in ArgvSet : ProcessStart(a)
  /\ UNCHANGED <<beamVars, fsVars, readCount>>

MainStep ==
  \/ MenuCrash
  \/ MenuStart
  \/ MenuChangePath
  \/ MenuChangeInterval
  \/ MenuExit
  \/ MenuInvalid
  \/ ConfirmYes
  \/ ConfirmNo
  \/ ConfirmAgain
  \/ initialize_tem
  \/ setup_csv_file
  \/ loop_check
  \/ get_stage_position
  \/ log_position
  \/ sleep
  \/ cleanup

Next ==
  \/ MenuCrash
  \/ MenuStart
  \/ MenuChangePath
  \/ MenuChangeInterval
  \/ MenuExit
  \/ MenuInvalid
  \/ ConfirmYes
  \/ ConfirmNo
  \/ ConfirmAgain
  \/ initialize_tem
  \/ setup_csv_file
  \/ loop_check
  \/ get_stage_position
  \/ log_position
  \/ sleep
  \/ cleanup
  \/ signal_handler
  \/ Restart

Spec == Init /\ [][Next]_vars

\* the main thread keeps executing: every step of the running program is
\* eventually taken; interrupts and restarts are up to the operator
FairSpec == Spec /\ WF_vars(MainStep)

TypeOK ==
  /\ session \in 1..MaxSessions
  /\ pc \in {"menu", "confirm", "initialize_tem", "setup_csv_file",
             "loop_check", "get_stage_position", "log_position", "sleep",
             "cleanup", "exit"}
  /\ running \in BOOLEAN
  /\ csv_file \in {None, "open", "closed"}
  /\ exit_status \in {-1, 0, 1}

(***************************************************************************)
(* Helpers of the properties                                               *)
(***************************************************************************)
(* beam_blank.py: BeamControllerApp.  A program of its own: the GUI thread *)
(* runs __init__ and then the tkinter main loop, which executes the button *)
(* commands and the callbacks scheduled with master.after one at a time;   *)
(* the daemon thread started at the end of __init__ runs hotkey_listener.  *)
(* The keyboard module holds the registered hotkeys; a press of a          *)
(* registered hotkey calls each of its registrations once.                 *)
(***************************************************************************)
\* the state after BeamControllerApp.__init__ (7-32): is_blank is what
\* GetBeamBlank returned, the listener thread is started and has not run
BeamInit ==
  /\ LoggerInit
  /\ output_file = default_output
  /\ interval = default_interval
  /\ gui = "mainloop"
  /\ listener = "start"
  /\ beam \in {0, 1}
  /\ is_blank = beam
  /\ current_hotkey = "alt+q"
  /\ listener_key = None
  /\ new_hotkey = None
  /\ hotkeys = [k \in Keys |-> 0]
  /\ pending = 0
  /\ events = 0

\* keyboard.add_hotkey(k, callback)
add_hotkey(k) == hotkeys' = [hotkeys EXCEPT ![k] = @ + 1]

\* hotkey_listener (45): the argument self.current_hotkey is evaluated
ListenerRead ==
  /\ listener = "start"
  /\ listener_key' = current_hotkey
  /\ listener' = "add"
  /\ UNCHANGED <<stageVars, gui, is_blank, beam, current_hotkey, new_hotkey,
                 hotkeys, pending, events>>

\* hotkey_listener (45-46): keyboard.add_hotkey registers the key that was
\* read, then keyboard.wait() blocks for good
ListenerAdd ==
  /\ listener = "add"
  /\ add_hotkey(listener_key)
  /\ listener' = "wait"
  /\ UNCHANGED <<stageVars, gui, is_blank, beam, current_hotkey,
                 listener_key, new_hotkey, pending, events>>

\* toggle_beam (34-42): SetBeamBlank(1) and is_blank = False when is_blank
\* is true, SetBeamBlank(0) and is_blank = True otherwise
toggle_beam ==
  IF is_blank = 1
    THEN /\ beam' = 1
         /\ is_blank' = 0
    ELSE /\ beam' = 0
         /\ is_blank' = 1

\* the operator clicks the button whose command is toggle_beam (15)
ButtonClick ==
  /\ gui = "mainloop"
  /\ events < MaxEvents
  /\ events' = events + 1
  /\ toggle_beam
  /\ UNCHANGED <<stageVars, gui, listener, current_hotkey, listener_key,
                 new_hotkey, hotkeys, pending>>

\* the operator presses hotkey k: every registration of k calls its
\* callback, which schedules toggle_beam with master.after(0, ...) (45, 53)
HotkeyPressed ==
  /\ events < MaxEvents
  /\ \E k \in Keys :
       /\ hotkeys[k] > 0
       /\ pending' = pending + hotkeys[k]
  /\ events' = events + 1
  /\ UNCHANGED <<stageVars, gui, listener, is_blank, beam, current_hotkey,
                 listener_key, new_hotkey, hotkeys>>

\* the main loop runs a scheduled toggle_beam
AfterCallback ==
  /\ gui = "mainloop"
  /\ pending > 0
  /\ pending' = pending - 1
  /\ toggle_beam
  /\ UNCHANGED <<stageVars, gui, listener, current_hotkey, listener_key,
                 new_hotkey, hotkeys, events>>

\* update_hotkey (48-51), the command of the "Set Hotkey" button: with a
\* non-empty entry all hotkeys are cleared
update_hotkey ==
  /\ gui = "mainloop"
  /\ events < MaxEvents
  /\ events' = events + 1
  /\ \E entry \in HotkeyEntries :
       /\ new_hotkey' = strip(entry)
       /\ IF strip(entry) # ""
            THEN /\ hotkeys' = [k \in Keys |-> 0]
                 /\ gui' = "update_set"
            ELSE UNCHANGED <<hotkeys, gui>>
  /\ UNCHANGED <<stageVars, listener, is_blank, beam, current_hotkey,
                 listener_key, pending>>

\* update_hotkey (52): self.current_hotkey = new_hotkey
UpdateSet ==
  /\ gui = "update_set"
  /\ current_hotkey' = new_hotkey
  /\ gui' = "update_add"
  /\ UNCHANGED <<stageVars, listener, is_blank, beam, listener_key,
                 new_hotkey, hotkeys, pending, events>>

\* update_hotkey (53): keyboard.add_hotkey(self.current_hotkey, ...)
UpdateAdd ==
  /\ gui = "update_add"
  /\ add_hotkey(current_hotkey)
  /\ gui' = "mainloop"
  /\ UNCHANGED <<stageVars, listener, is_blank, beam, current_hotkey,
                 listener_key, new_hotkey, pending, events>>

BeamNext ==
  \/ ListenerRead
  \/ ListenerAdd
  \/ ButtonClick
  \/ HotkeyPressed
  \/ AfterCallback
  \/ update_hotkey
  \/ UpdateSet
  \/ UpdateAdd

BeamSpec == BeamInit /\ [][BeamNext]_vars


(***************************************************************************)
Count(seq, x) == Cardinality({i \in DOMAIN seq : seq[i] = x})
IsData(x) == x # Header
DataLines(seq) == SelectSeq(seq, IsData)
Max(a, b) == IF a >= b THEN a ELSE b
IsPrefix(a, b) == Len(a) <= Len(b) /\ SubSeq(b, 1, Len(a)) = a

(***************************************************************************)
(* C1.  Three consecutive write failures reported by log_position abort    *)
(* the session: the loop does not come round again, the process exits with *)
(* a non-zero status and teardown ran with disconnect() called exactly     *)
(* once.  (The code has no escalation: it keeps looping and exits with 0.) *)
(***************************************************************************)
C1_WriteFailuresAbort ==
  /\ consecFail >= 3 => pc \notin {"loop_check", "get_stage_position"}
  /\ (pc = "exit" /\ consecFail >= 3) =>
        /\ exit_status # 0
        /\ cleanups = 1
        /\ Count(temCalls, "tem.disconnect") = 1

(***************************************************************************)
(* C2.  Whenever run ended through its teardown, teardown closed the       *)
(* record sink first and then called disconnect() on the instrument,       *)
(* exactly once and unconditionally, and never called connect().           *)
(***************************************************************************)
C2_TeardownCloseThenDisconnect ==
  (pc = "exit" /\ cleanups > 0) =>
     /\ Count(temCalls, "tem.connect") = 0
     /\ Count(temCalls, "tem.disconnect") = 1
     /\ temCalls = <<"csv_file.close", "tem.disconnect">>

(***************************************************************************)
(* C3.  Whenever run has returned after the connection succeeded, also     *)
(* when the output file could not be opened, cleanup has been run, and no  *)
(* exception escaped run.                                                  *)
(***************************************************************************)
C3_EveryExitThroughTeardown ==
  (pc = "exit" /\ tem # None) => (cleanups = 1 /\ ~uncaught)

(***************************************************************************)
(* C4.  Within a session, a SIGINT delivery changes nothing but running    *)
(* (and the delivery count): no file, instrument or control state; running *)
(* only ever changes from true to false, and only by the handler, so a     *)
(* second interrupt leaves running false.                                  *)
(***************************************************************************)
C4_HandlerOnlyClearsRunning ==
  [][ session' = session =>
        /\ running' # running => (running /\ ~running'
                                    /\ interrupts' = interrupts + 1)
        /\ interrupts' # interrupts =>
              /\ ~running'
              /\ UNCHANGED <<pc, output_file, interval, handler, tem,
                             csv_file, csv_buf, position_data, file_exists,
                             log_count, exit_status, exists, disk, temCalls,
                             cleanups, readCount>> ]_vars

\* a second interrupt arrived before the loop observed the first
C4_Witness ==
  /\ interrupts = 2
  /\ ~running
  /\ pc \in {"get_stage_position", "log_position", "sleep"}

(***************************************************************************)
(* C5.  After an interrupt that arrives while run is in its sampling loop, *)
(* the loop issues at most one further GetPos call and at most one further *)
(* sleep, and the process reaches its terminal state with the output file  *)
(* handle closed and only whole lines (the header or sample records) in    *)
(* the file.                                                               *)
(***************************************************************************)
C5_BoundedShutdown ==
  /\ [](/\ readsAfterStop <= 1
        /\ sleepsAfterStop <= 1
        /\ (pc = "exit" /\ stopInSampling) =>
              /\ csv_file = "closed"
              /\ \A i \in DOMAIN disk[output_file] :
                    disk[output_file][i] \in 0..readCount)
  /\ (stopInSampling ~> (pc = "exit" /\ csv_file = "closed"))

\* the interrupt arrived after the loop condition was tested: one more read
\* and one more sleep were issued before the process ended
C5_Witness ==
  /\ stopInSampling
  /\ pc = "exit"
  /\ readsAfterStop = 1
  /\ sleepsAfterStop = 1
  /\ ~loopError
  /\ csv_file = "closed"

(***************************************************************************)
(* C6.  A failed read (GetPos raising or returning a partial tuple) leaves *)
(* no record and does not end the loop, and the number of data records     *)
(* this session has appended to the file equals the number of successful   *)
(* reads whose write succeeded (log_position returned True: log_count).    *)
(***************************************************************************)
SessionRecords ==
  Len(DataLines(disk[output_file])) - Len(DataLines(startDisk))

C6_RecordsEqualSuccessfulWrites ==
  /\ (pc = "sleep" /\ position_data = 0) =>
        /\ Count(disk[output_file], SampleId(readCount)) = 0
        /\ Count(csv_buf, SampleId(readCount)) = 0
  /\ (csv_file = "open" /\ pc \in SamplingPcs) => SessionRecords = log_count

(***************************************************************************)
(* C7.  The interval handed to the sampling loop is strictly positive, for *)
(* every command-line argument (a non-positive one such as -1 being        *)
(* replaced by the default) and every sequence of menu inputs.             *)
(***************************************************************************)
C7_LoopIntervalPositive ==
  handler => interval > 0

(***************************************************************************)
(* C8 as stated.  Between sessions an existing output file contains        *)
(* exactly one header line, as its first line.                             *)
(***************************************************************************)
C8_ExactlyOneHeader ==
  \A p \in Paths :
    (pc = "exit" /\ exists[p]) =>
       /\ Count(disk[p], Header) = 1
       /\ disk[p][1] = Header

(***************************************************************************)
(* C8 amended.  Opening never truncates: while the handle is open the      *)
(* contents found at the open are an unchanged prefix of the file, the     *)
(* lines written after them start with the header exactly when the file    *)
(* did not exist before the open, and at all times every file contains at  *)
(* most one header line, which is then its first line.                     *)
(***************************************************************************)
\* the lines this session has handed to the handle, flushed or not
SessionLines ==
  SubSeq(disk[output_file] \o csv_buf, Len(startDisk) + 1,
         Len(disk[output_file]) + Len(csv_buf))

C8_AppendAtMostOneHeader ==
  /\ csv_file = "open" =>
        /\ IsPrefix(startDisk, disk[output_file])
        /\ (SessionLines # <<>> /\ SessionLines[1] = Header) <=> ~file_exists
        /\ Count(SessionLines, Header) <= 1
  /\ \A p \in Paths :
        /\ Count(disk[p], Header) <= 1
        /\ \A i \in DOMAIN disk[p] : disk[p][i] = Header => i = 1

\* a second session appended a record to the file the first one created
C8_Witness ==
  /\ session = 2
  /\ csv_file = "open"
  /\ file_exists
  /\ startDisk # <<>>
  /\ startDisk[1] = Header
  /\ Len(disk[output_file]) > Len(startDisk)

(***************************************************************************)
(* C9.  The exit status is zero exactly on a clean stop (interrupt, exit   *)
(* in the menu, confirmation declined) and non-zero when the session could *)
(* not initialize (connection failed, output file not opened) or ended on  *)
(* an error.                                                               *)
(***************************************************************************)
InitFailed == handler /\ csv_file = None
ErrorEnd == loopError \/ uncaught

C9_ExitStatus ==
  pc = "exit" => (exit_status = 0 <=> ~(InitFailed \/ ErrorEnd))

(***************************************************************************)
(* C10.  Each iteration sleeps max(0, interval - elapsed), never a         *)
(* negative duration, so that with an acquisition shorter than the         *)
(* interval the period between iteration starts equals the interval.       *)
(***************************************************************************)
C10_SelfCorrectingSleep ==
  pc = "sleep" =>
     /\ SleepArg = Max(0, interval - acq_elapsed)
     /\ SleepArg >= 0
     /\ acq_elapsed < interval => acq_elapsed + SleepArg = interval

(***************************************************************************)
(* C11.  An unwritable output directory is surfaced before any hardware    *)
(* interaction: the menu hands control on (choice 1) only after a          *)
(* successful writability probe, and run has not connected to the          *)
(* instrument in a session whose output file could not be opened.          *)
(***************************************************************************)
C11_UnwritableBeforeHardware ==
  /\ pc = "confirm" => probe_ok
  /\ (pc = "exit" /\ handler /\ exit_status = 1 /\ csv_file = None) =>
        tem = None

(***************************************************************************)
(* C12.  The confirmation gate precedes everything the logger does: the    *)
(* logger exists (interrupt handler installed) only after                  *)
(* get_user_parameters returned a configuration and confirm_operation      *)
(* returned True; until then, and in a process ended by exit in the menu   *)
(* or by a 'no', no instrument call is made, no file is opened or written  *)
(* and no cleanup runs.                                                    *)
(***************************************************************************)
C12_ConfirmationGate ==
  /\ [](/\ handler => confirm_result = "True"
        /\ ~handler => /\ tem = None
                       /\ csv_file = None
                       /\ temCalls = <<>>
                       /\ cleanups = 0
        /\ (pc = "exit" /\ confirm_result # "True") => ~handler)
  /\ [][ /\ (~handler /\ session' = session) =>
              UNCHANGED <<exists, disk, readCount, csv_buf>>
         /\ (~handler /\ handler') => pc = "confirm" ]_vars

\* the operator declined at the confirmation: the process ended with no
\* logger created
C12_Witness ==
  /\ pc = "exit"
  /\ confirm_result = "False"
  /\ exit_status = 0
  /\ ~handler

(***************************************************************************)
(* C13.  No batching: between two reads (at the loop test, at the read and *)
(* in the sleep) every sample accepted so far in this session is a data    *)
(* line of the file, in the order the samples were read; no accepted       *)
(* sample is still waiting in the buffer when the next read is issued.     *)
(* (A failed flush leaves the record in the buffer; it reaches the file    *)
(* together with the next record, or never.)                               *)
(***************************************************************************)
SessionDiskLines ==
  SubSeq(disk[output_file], Len(startDisk) + 1, Len(disk[output_file]))

C13_NoBatching ==
  (csv_file = "open" /\ pc \in {"loop_check", "get_stage_position", "sleep"})
     => /\ DataLines(SessionDiskLines) = DataLines(SessionLines)
        /\ \A i, j \in DOMAIN DataLines(SessionDiskLines) :
              i < j => DataLines(SessionDiskLines)[i]
                         < DataLines(SessionDiskLines)[j]

(***************************************************************************)
(* C14.  The handle is closed only in teardown: it is open in every state  *)
(* of the sampling loop, so during every read and every append; it goes    *)
(* from open to closed only by cleanup; and once it is closed the process  *)
(* has ended, so no read and no append follows the close.                  *)
(***************************************************************************)
C14_ClosedOnlyInTeardown ==
  /\ [](/\ pc \in SamplingPcs => csv_file = "open"
        /\ csv_file = "closed" => pc = "exit")
  /\ [][ /\ (csv_file = "open" /\ csv_file' = "closed") => pc = "cleanup"
         /\ readCount' # readCount =>
               csv_file = "open" /\ csv_file' = "open"
         /\ (session' = session /\ pc # "cleanup" /\
             <<disk, csv_buf>>' # <<disk, csv_buf>>) =>
               csv_file' = "open" ]_vars

\* a session that appended a record and then closed the handle in teardown
C14_Witness ==
  /\ pc = "exit"
  /\ csv_file = "closed"
  /\ log_count > 0
  /\ cleanups = 1
  /\ ~loopError

(***************************************************************************)
(* C15.  A failed connection ends the session at once: a logger that has   *)
(* left initialize_tem without an instrument is at the end of the process  *)
(* with exit status 1, has opened no file and has run no teardown; no read *)
(* is issued and nothing is created or written on disk without an          *)
(* instrument.                                                             *)
(***************************************************************************)
C15_ConnectFailureEndsSession ==
  /\ []((handler /\ tem = None /\ pc # "initialize_tem") =>
          /\ pc = "exit"
          /\ exit_status = 1
          /\ csv_file = None
          /\ csv_buf = <<>>
          /\ cleanups = 0)
  /\ [][ (tem = None /\ session' = session) =>
            UNCHANGED <<readCount, exists, disk>> ]_vars

\* the connection failed and the process has ended
C15_Witness ==
  /\ pc = "exit"
  /\ handler
  /\ tem = None
  /\ exit_status = 1

(***************************************************************************)
(* C16.  Frame of the menu of get_user_parameters: an iteration that stays *)
(* in the menu changes at most one of output_file and interval, interval   *)
(* only to a positive value and output_file only to a non-empty path; the  *)
(* menu is left only by option 1, with the settings as they are, or by     *)
(* option 4 (or the uncaught error of the display), again without changing *)
(* a setting; and nothing but the two settings is touched.                 *)
(***************************************************************************)
C16_MenuFrame ==
  [][ (pc = "menu" /\ session' = session) =>
        /\ pc' \in {"menu", "confirm", "exit"}
        /\ pc' = "menu" =>
              /\ output_file' = output_file \/ interval' = interval
              /\ interval' # interval => interval' > 0
              /\ output_file' # output_file => output_file' \in Paths
        /\ pc' # "menu" => UNCHANGED cfgVars
        /\ pc' = "exit" =>
              \/ exit_status' = 0 /\ ~uncaught'
              \/ exit_status' = 1 /\ uncaught' /\ interval = 0
        /\ UNCHANGED <<loggerVars, readCount, temCalls, cleanups,
                       confirm_result>> ]_vars

\* option 1 returned settings of which at least one was entered in the
\* menu (the command line gives an interval only together with path "D")
C16_Witness ==
  /\ pc = "confirm"
  /\ output_file = "C"
  /\ interval = 2

(***************************************************************************)
(* C17.  While the handle is open, log_count equals the number of data     *)
(* records this session has appended to the file.  (A record whose flush   *)
(* failed is not counted, yet the next successful flush puts it into the   *)
(* file.)                                                                  *)
(***************************************************************************)
C17_LogCountIsRecordsAppended ==
  csv_file = "open" => log_count = Len(DataLines(SessionDiskLines))

(***************************************************************************)
(* C18.  In the running BeamControllerApp the is_blank flag equals the     *)
(* blanking state of the instrument: the state read by GetBeamBlank at     *)
(* first and the state last commanded by SetBeamBlank after every          *)
(* toggle_beam.  (toggle_beam commands 1 when the flag is true and then    *)
(* clears the flag, so the first toggle leaves the instrument as it was    *)
(* and from then on the flag is the opposite of the commanded state.)      *)
(***************************************************************************)
C18_FlagIsCommandedState ==
  gui # "off" => is_blank = beam

(***************************************************************************)
(* C19.  Once the listener thread has registered its hotkey and no         *)
(* update_hotkey is in progress, exactly one registration exists and it is *)
(* the one of current_hotkey.  (The listener's registration races with     *)
(* update_hotkey: a registration made after clear_all_hotkeys stays next   *)
(* to the one update_hotkey adds.)                                         *)
(***************************************************************************)
C19_OneRegistration ==
  (listener = "wait" /\ gui = "mainloop") =>
     \A k \in Keys : hotkeys[k] = IF k = current_hotkey THEN 1 ELSE 0

====
